---- MODULE Spec2Model ----
(***************************************************************************)
(* A model of the PocketPaw gateway: the Telegram bot transport            *)
(* (bot_gateway.py), the WebSocket dashboard transport (dashboard.py),     *)
(* the settings file shared by both (config.py) and the chat router        *)
(* (llm/router.py).                                                        *)
(*                                                                         *)
(* Conventions.  Python's None is NoUser (0) for a user id, NoKey ("")     *)
(* for a credential and NoBackend ("") for a backend name; Telegram user   *)
(* ids are positive.  Text with structure ("settings:backend:x") is a     *)
(* tuple of its colon-separated parts.  `last` is a history variable: the  *)
(* record of the handler step taken most recently, with the external       *)
(* calls it made, in order.                                                *)
(***************************************************************************)
EXTENDS Integers, Sequences, FiniteSets, TLC

VARIABLES
    file,               \* config.json: <<>> when absent, else <<saved data>>
    settings,           \* BotGateway.settings
    agent_active,       \* BotGateway.agent_active
    agent_router,       \* BotGateway.agent_router
    llm_router,         \* BotGateway.llm_router
    stream,             \* the chunk loop of handle_message
    stopping,           \* handle_panic is awaiting agent_router.stop()
    connected,          \* history: requesters that got the "Connected" reply
    conns,              \* per WebSocket connection: the locals of websocket_endpoint
    active_connections, \* dashboard.active_connections
    bus_runs,           \* chat ids with an agent-loop execution in flight
    bcast,              \* the broadcast in progress, with its history
    fs,                 \* the file system as the browse action sees it
    last                \* history: the latest handler step

vars == <<file, settings, agent_active, agent_router, llm_router, stream,
          stopping, connected, conns, active_connections, bus_runs, bcast, fs,
          last>>

botVars == <<settings, agent_active, agent_router, llm_router, stream,
             stopping, connected>>

sockVars == <<conns, active_connections, bus_runs, bcast, fs>>

----------------------------------------------------------------------------
(* Bounds *)

MaxUser == 2      \* requester ids 1..MaxUser
MaxConn == 1      \* WebSocket connections that send actions
MaxCast == 2      \* WebSocket connections that a broadcast reaches
MaxChunks == 2    \* chunks of one agent run
MaxHist == 2      \* turns of history before which a chat may begin

Users == 1..MaxUser
Conns == 1..MaxConn
CastConns == 1..MaxCast
Sockets == Conns \cup CastConns

----------------------------------------------------------------------------
(* Paths are tuples of their segments, from the root. *)

\* Path.home()
Home == <<"home", "user">>

----------------------------------------------------------------------------
(* config.py: Settings *)

NoUser == 0
NoKey == ""
NoBackend == ""

Backends == {"open_interpreter", "claude_code"}
Providers == {"auto", "ollama", "openai", "anthropic"}

DefaultSettings ==
    [ allowed_user_id   |-> NoUser,
      agent_backend     |-> "open_interpreter",
      llm_provider      |-> "auto",
      openai_api_key    |-> NoKey,
      anthropic_api_key |-> NoKey,
      anthropic_model   |-> "claude-sonnet-4-20250514",
      file_jail_path    |-> Home,
      web_host          |-> "127.0.0.1" ]

SettingsFields == DOMAIN DefaultSettings

\* The keys Settings.save writes.
SavedFields ==
    { "allowed_user_id", "agent_backend", "llm_provider",
      "openai_api_key", "anthropic_api_key", "anthropic_model" }

\* Settings.save: the whole file is rewritten from this instance.
save(s) == << [k \in SavedFields |-> s[k]] >>

\* Settings.load: the file's keys over the defaults; defaults when absent.
load(f) ==
    IF f = <<>>
    THEN DefaultSettings
    ELSE [k \in SettingsFields |->
            IF k \in DOMAIN f[1] THEN f[1][k] ELSE DefaultSettings[k]]

\* Settings instances as a process may hold them: built from the file, the
\* environment or the constructor's arguments.
SettingsValues ==
    [ allowed_user_id   : {NoUser, 1},
      agent_backend     : Backends,
      llm_provider      : Providers,
      openai_api_key    : {NoKey, "sk-1"},
      anthropic_api_key : {NoKey, "sk-2"},
      anthropic_model   : {"claude-sonnet-4-20250514"},
      file_jail_path    : {Home, <<"srv", "jail">>},
      web_host          : {"127.0.0.1", "0.0.0.0"} ]

\* The persisted Owner Identity.
FileOwner == IF file = <<>> THEN NoUser ELSE file[1].allowed_user_id

----------------------------------------------------------------------------
(* agents/router.py: AgentRouter (not part of the sources at hand).  The   *)
(* backend variant is read from the settings at construction.  run() is a  *)
(* finite chunk generator; stop() terminates the backend.  Nothing is      *)
(* assumed about chunks the generator already holds when stop() returns.   *)

NoAgentRouter == [alloc |-> FALSE, backend |-> NoBackend, st |-> "none"]

AgentRouter(s) == [alloc |-> TRUE, backend |-> s.agent_backend, st |-> "idle"]

AgentRun(r) == [r EXCEPT !.st = "running"]

AgentExhausted(r) == [r EXCEPT !.st = IF r.st = "running" THEN "idle" ELSE r.st]

AgentStopCalled(r) == [r EXCEPT !.st = "stopping"]

AgentStopped(r) == [r EXCEPT !.st = "stopped"]

----------------------------------------------------------------------------
(* llm/router.py: LLMRouter *)

NoLLMRouter == [alloc |-> FALSE, backend |-> NoBackend, history |-> <<>>]

LLMRouter == [alloc |-> TRUE, backend |-> NoBackend, history |-> <<>>]

\* _detect_backend with the auto order reversed: the remote providers are
\* tried before the local service.
detect_backend_remote_first(s, ollama_up) ==
    CASE s.llm_provider = "ollama" ->
            IF ollama_up THEN "ollama" ELSE NoBackend
      [] s.llm_provider = "openai" ->
            IF s.openai_api_key # NoKey THEN "openai" ELSE NoBackend
      [] s.llm_provider = "anthropic" ->
            IF s.anthropic_api_key # NoKey THEN "anthropic" ELSE NoBackend
      [] s.llm_provider = "auto" ->
            IF s.anthropic_api_key # NoKey THEN "anthropic"
            ELSE IF s.openai_api_key # NoKey THEN "openai"
            ELSE IF ollama_up THEN "ollama"
            ELSE NoBackend
      [] OTHER -> NoBackend

\* _detect_backend with the returns of the explicit branches lost: an
\* unsatisfied explicit provider falls through to another one.
detect_backend_fallback(s, ollama_up) ==
    IF s.llm_provider = "ollama" /\ ollama_up THEN "ollama"
    ELSE IF s.llm_provider = "openai" /\ s.openai_api_key # NoKey THEN "openai"
    ELSE IF s.llm_provider = "anthropic" /\ s.anthropic_api_key # NoKey THEN "anthropic"
    ELSE IF s.llm_provider \in Providers
    THEN IF ollama_up THEN "ollama"
         ELSE IF s.openai_api_key # NoKey THEN "openai"
         ELSE IF s.anthropic_api_key # NoKey THEN "anthropic"
         ELSE NoBackend
    ELSE NoBackend

\* _detect_backend; ollama_up is the outcome of _check_ollama.
detect_backend(s, ollama_up) ==
    CASE s.llm_provider = "ollama" ->
            IF ollama_up THEN "ollama" ELSE NoBackend
      [] s.llm_provider = "openai" ->
            IF s.openai_api_key # NoKey THEN "openai" ELSE NoBackend
      [] s.llm_provider = "anthropic" ->
            IF s.anthropic_api_key # NoKey THEN "anthropic" ELSE NoBackend
      [] s.llm_provider = "auto" ->
            IF ollama_up THEN "ollama"
            ELSE IF s.openai_api_key # NoKey THEN "openai"
            ELSE IF s.anthropic_api_key # NoKey THEN "anthropic"
            ELSE NoBackend
      [] OTHER -> NoBackend

Turn(role, content) == [role |-> role, content |-> content]

\* The calls of a chat: detection with the outcome of its liveness probe,
\* where it ran one, and the provider call.
chat_calls(r, s, env, backend) ==
    (IF r.backend = NoBackend
     THEN <<"detect">> \o (IF s.llm_provider \in {"ollama", "auto"}
                           THEN <<IF env.ollama_up THEN "probe_up" ELSE "probe_down">>
                           ELSE <<>>)
     ELSE <<>>)
        \o (IF backend = NoBackend
            THEN <<>>
            ELSE IF env.call_ok
            THEN <<"append_user", "provider_call", "append_assistant">>
            ELSE <<"append_user", "provider_call_failed">>)

\* chat with the append of the assistant turn left out.
chat_no_assistant(r, s, message, env) ==
    LET backend == IF r.backend = NoBackend
                   THEN detect_backend(s, env.ollama_up)
                   ELSE r.backend
        asked == Append(r.history, Turn("user", message))
        calls == chat_calls(r, s, env, backend)
    IN  IF backend = NoBackend
        THEN [router |-> [r EXCEPT !.backend = backend],
              reply |-> "No LLM backend available", calls |-> calls]
        ELSE IF env.call_ok
        THEN [router |-> [r EXCEPT !.backend = backend, !.history = asked],
              reply |-> "response", calls |-> calls]
        ELSE [router |-> [r EXCEPT !.backend = backend, !.history = asked],
              reply |-> "LLM Error", calls |-> calls]

\* chat with the user turn appended before the test for a backend.
chat_appends_first(r, s, message, env) ==
    LET backend == IF r.backend = NoBackend
                   THEN detect_backend(s, env.ollama_up)
                   ELSE r.backend
        asked == Append(r.history, Turn("user", message))
        calls == chat_calls(r, s, env, backend)
    IN  IF backend = NoBackend
        THEN [router |-> [r EXCEPT !.backend = backend, !.history = asked],
              reply |-> "No LLM backend available", calls |-> calls]
        ELSE IF env.call_ok
        THEN [router |-> [r EXCEPT !.backend = backend,
                                   !.history = Append(asked, Turn("assistant", "response"))],
              reply |-> "response", calls |-> calls]
        ELSE [router |-> [r EXCEPT !.backend = backend, !.history = asked],
              reply |-> "LLM Error", calls |-> calls]

\* chat with the assistant turn recorded before the user turn.
chat_answer_first(r, s, message, env) ==
    LET backend == IF r.backend = NoBackend
                   THEN detect_backend(s, env.ollama_up)
                   ELSE r.backend
        asked == Append(r.history, Turn("user", message))
        calls == chat_calls(r, s, env, backend)
    IN  IF backend = NoBackend
        THEN [router |-> [r EXCEPT !.backend = backend],
              reply |-> "No LLM backend available", calls |-> calls]
        ELSE IF env.call_ok
        THEN [router |-> [r EXCEPT !.backend = backend,
                                   !.history = r.history
                                        \o << Turn("assistant", "response"),
                                              Turn("user", message) >>],
              reply |-> "response", calls |-> calls]
        ELSE [router |-> [r EXCEPT !.backend = backend, !.history = asked],
              reply |-> "LLM Error", calls |-> calls]

\* chat with the history rolled back when the provider call fails.
chat_rollback(r, s, message, env) ==
    LET backend == IF r.backend = NoBackend
                   THEN detect_backend(s, env.ollama_up)
                   ELSE r.backend
        asked == Append(r.history, Turn("user", message))
        calls == chat_calls(r, s, env, backend)
    IN  IF backend = NoBackend
        THEN [router |-> [r EXCEPT !.backend = backend],
              reply |-> "No LLM backend available", calls |-> calls]
        ELSE IF env.call_ok
        THEN [router |-> [r EXCEPT !.backend = backend,
                                   !.history = Append(asked, Turn("assistant", "response"))],
              reply |-> "response", calls |-> calls]
        ELSE [router |-> [r EXCEPT !.backend = backend],
              reply |-> "LLM Error", calls |-> calls]

\* chat: env.ollama_up is the probe's outcome, env.call_ok whether the
\* provider call returns.  The result is the router after the call, the
\* returned text and the calls made.
chat(r, s, message, env) ==
    LET backend == IF r.backend = NoBackend
                   THEN detect_backend(s, env.ollama_up)
                   ELSE r.backend
        asked == Append(r.history, Turn("user", message))
        calls == chat_calls(r, s, env, backend)
    IN  IF backend = NoBackend
        THEN [router |-> [r EXCEPT !.backend = backend],
              reply |-> "No LLM backend available", calls |-> calls]
        ELSE IF env.call_ok
        THEN [router |-> [r EXCEPT !.backend = backend,
                                   !.history = Append(asked, Turn("assistant", "response"))],
              reply |-> "response", calls |-> calls]
        ELSE [router |-> [r EXCEPT !.backend = backend, !.history = asked],
              reply |-> "LLM Error", calls |-> calls]

ChatEnv == [ollama_up : BOOLEAN, call_ok : BOOLEAN]

----------------------------------------------------------------------------
(* bot_gateway.py: the updates of the bot transport *)

\* MAIN_KEYBOARD's buttons, and a free text.
Buttons == {"Status", "Fetch", "Screenshot", "Panic", "Agent Mode", "Settings"}
Texts == Buttons \cup {"hello"}

\* Callback data matching "^settings:": the two backend buttons, two of the
\* provider buttons, and data that names neither a backend nor a provider.
SettingsData ==
    {<<"settings", "backend", b>> : b \in Backends}
        \cup {<<"settings", "llm", p>> : p \in {"auto", "openai"}}
        \cup {<<"settings", "theme", "dark">>}

\* An update: its sender, the handler run_bot routes it to, and its payload.
\* `waited` is history: the number of chunks of an agent run that were
\* forwarded between the update's arrival and the start of its handler.
Updates ==
    [from : Users, kind : {"start"}, data : {<<>>}, waited : {0}]
        \cup [from : Users, kind : {"text"}, data : {<<t>> : t \in Texts}, waited : {0}]
        \cup [from : Users, kind : {"settings_cb"}, data : SettingsData, waited : {0}]
        \cup [from : Users, kind : {"fetch_cb"}, data : {<<"fetch", "/home/user">>},
              waited : {0}]

\* What a step answered, where the answer matters: nothing recorded.
NoReply == [type |-> "none"]

NoLast ==
    [tr |-> "none", from |-> NoUser, owner |-> NoUser, conn |-> 0, kind |-> "",
     data |-> <<>>, waited |-> 0, sent |-> 0, again |-> FALSE, calls |-> <<>>,
     reply |-> NoReply]

\* The record of a bot handler's step.
BotStep(u, calls) ==
    [tr |-> "bot", from |-> u.from, owner |-> settings.allowed_user_id, conn |-> 0,
     kind |-> u.kind, data |-> u.data, waited |-> u.waited, sent |-> 0,
     again |-> (last.tr = "bot" /\ last.from = u.from /\ last.kind = u.kind
                /\ last.data = u.data),
     calls |-> calls, reply |-> NoReply]

----------------------------------------------------------------------------
(* bot_gateway.py: BotGateway *)

\* is_authorized with the comparison lost: anyone passes once an owner is bound.
is_authorized_bound(user_id) == settings.allowed_user_id # NoUser

is_authorized(user_id) == user_id = settings.allowed_user_id

\* A handler step that changes nothing in the gateway and makes `calls`.
Quiet(u, calls) ==
    /\ last' = BotStep(u, calls)
    /\ UNCHANGED <<file, settings, agent_active, agent_router, llm_router,
                   stream, stopping, connected>>

\* start without the first-connection test: every /start binds its sender.
start_always(u) ==
    /\ settings' = [settings EXCEPT !.allowed_user_id = u.from]
    /\ file' = save(settings')
    /\ connected' = connected \cup {u.from}
    /\ \E posted \in BOOLEAN :
         last' = BotStep(u, <<"save",
                              IF posted THEN "notify" ELSE "notify_failed",
                              "reply_connected">>)
    /\ UNCHANGED <<agent_active, agent_router, llm_router, stream, stopping>>

\* /start.  `posted` is whether the POST to the setup service succeeded.
\* start with the failure of the pairing notification left uncaught: the
\* handler ends there.
start_notify_raises(u) ==
    IF settings.allowed_user_id = NoUser
    THEN /\ settings' = [settings EXCEPT !.allowed_user_id = u.from]
         /\ file' = save(settings')
         /\ \E posted \in BOOLEAN :
              /\ connected' = IF posted THEN connected \cup {u.from} ELSE connected
              /\ last' = BotStep(u, IF posted
                                    THEN <<"save", "notify", "reply_connected">>
                                    ELSE <<"save", "notify_failed", "error">>)
         /\ UNCHANGED <<agent_active, agent_router, llm_router, stream, stopping>>
    ELSE IF is_authorized(u.from)
    THEN Quiet(u, <<"reply_welcome">>)
    ELSE Quiet(u, <<"reply_unauthorized">>)

start(u) ==
    IF settings.allowed_user_id = NoUser
    THEN /\ settings' = [settings EXCEPT !.allowed_user_id = u.from]
         /\ file' = save(settings')
         /\ connected' = connected \cup {u.from}
         /\ \E posted \in BOOLEAN :
              last' = BotStep(u, <<"save",
                                   IF posted THEN "notify" ELSE "notify_failed",
                                   "reply_connected">>)
         /\ UNCHANGED <<agent_active, agent_router, llm_router, stream, stopping>>
    ELSE IF is_authorized(u.from)
    THEN Quiet(u, <<"reply_welcome">>)
    ELSE Quiet(u, <<"reply_unauthorized">>)

handle_status(u) ==
    IF ~is_authorized(u.from) THEN <<>> ELSE <<"tool_status", "reply_status">>

handle_fetch(u) ==
    IF ~is_authorized(u.from) THEN <<>> ELSE <<"tool_fetch", "reply_browser">>

\* `shot` is whether take_screenshot returned an image.
handle_screenshot(u, shot) ==
    IF ~is_authorized(u.from)
    THEN <<>>
    ELSE <<"reply_taking", "tool_screenshot",
           IF shot THEN "reply_photo" ELSE "reply_failed">>

handle_settings(u) ==
    IF ~is_authorized(u.from) THEN <<>> ELSE <<"reply_settings_menu">>

\* handle_panic without the test for a controller: stop() is called on None.
handle_panic_unguarded(u) ==
    IF ~is_authorized(u.from)
    THEN Quiet(u, <<>>)
    ELSE /\ agent_active' = FALSE
         /\ IF agent_router.alloc
            THEN /\ agent_router' = AgentStopCalled(agent_router)
                 /\ stopping' = TRUE
                 /\ last' = BotStep(u, <<"agent_stop_called">>)
            ELSE /\ last' = BotStep(u, <<"error">>)
                 /\ UNCHANGED <<agent_router, stopping>>
         /\ UNCHANGED <<file, settings, llm_router, stream, connected>>

\* The panic button, up to the await of agent_router.stop().
handle_panic(u) ==
    IF ~is_authorized(u.from)
    THEN Quiet(u, <<>>)
    ELSE /\ agent_active' = FALSE
         /\ IF agent_router.alloc
            THEN /\ agent_router' = AgentStopCalled(agent_router)
                 /\ stopping' = TRUE
                 /\ last' = BotStep(u, <<"agent_stop_called">>)
            ELSE /\ last' = BotStep(u, <<"reply_panic">>)
                 /\ UNCHANGED <<agent_router, stopping>>
         /\ UNCHANGED <<file, settings, llm_router, stream, connected>>

\* handle_panic from the return of agent_router.stop() on.
StopReturns ==
    /\ stopping
    /\ stopping' = FALSE
    /\ agent_router' = AgentStopped(agent_router)
    /\ stream' = [stream EXCEPT !.cut = stream.active]
    /\ last' = [last EXCEPT !.calls = <<"agent_stop", "reply_panic">>]
    /\ UNCHANGED <<file, settings, agent_active, llm_router, connected>>
    /\ UNCHANGED sockVars

\* handle_agent_mode without the test for an existing controller: every
\* activation constructs one.
handle_agent_mode_realloc(u) ==
    IF ~is_authorized(u.from)
    THEN Quiet(u, <<>>)
    ELSE /\ agent_active' = ~agent_active
         /\ IF agent_active'
            THEN /\ agent_router' = AgentRouter(settings)
                 /\ last' = BotStep(u, <<"new_agent_router", "reply_agent_on">>)
            ELSE /\ last' = BotStep(u, <<"reply_agent_off">>)
                 /\ UNCHANGED agent_router
         /\ UNCHANGED <<file, settings, llm_router, stream, stopping, connected>>

\* The Agent Mode button.  `built` is whether the constructor of the
\* controller returns; when it raises, the handler ends there.
handle_agent_mode(u) ==
    IF ~is_authorized(u.from)
    THEN Quiet(u, <<>>)
    ELSE /\ agent_active' = ~agent_active
         /\ IF agent_active'
            THEN IF ~agent_router.alloc
                 THEN \E built \in BOOLEAN :
                        IF built
                        THEN /\ agent_router' = AgentRouter(settings)
                             /\ last' = BotStep(u, <<"new_agent_router", "reply_agent_on">>)
                        ELSE /\ last' = BotStep(u, <<"new_agent_router_failed", "error">>)
                             /\ UNCHANGED agent_router
                 ELSE /\ last' = BotStep(u, <<"reply_agent_on">>)
                      /\ UNCHANGED agent_router
            ELSE /\ last' = BotStep(u, <<"reply_agent_off">>)
                 /\ UNCHANGED agent_router
         /\ UNCHANGED <<file, settings, llm_router, stream, stopping, connected>>

\* handle_settings_callback with the save left out: the change is made in
\* memory and confirmed.
handle_settings_callback_unsaved(u) ==
    IF ~is_authorized(u.from)
    THEN Quiet(u, <<"query_answer">>)
    ELSE IF SubSeq(u.data, 1, 2) \in {<<"settings", "backend">>, <<"settings", "llm">>}
    THEN /\ settings' = IF u.data[2] = "backend"
                        THEN [settings EXCEPT !.agent_backend = u.data[Len(u.data)]]
                        ELSE [settings EXCEPT !.llm_provider = u.data[Len(u.data)]]
         /\ last' = BotStep(u, <<"query_answer", "edit_message">>)
         /\ UNCHANGED <<file, agent_active, agent_router, llm_router, stream,
                        stopping, connected>>
    ELSE Quiet(u, <<"query_answer">>)

handle_settings_callback(u) ==
    IF ~is_authorized(u.from)
    THEN Quiet(u, <<"query_answer">>)
    ELSE IF SubSeq(u.data, 1, 2) = <<"settings", "backend">>
    THEN /\ settings' = [settings EXCEPT !.agent_backend = u.data[Len(u.data)]]
         /\ file' = save(settings')
         /\ last' = BotStep(u, <<"query_answer", "save", "edit_message">>)
         /\ UNCHANGED <<agent_active, agent_router, llm_router, stream,
                        stopping, connected>>
    ELSE IF SubSeq(u.data, 1, 2) = <<"settings", "llm">>
    THEN /\ settings' = [settings EXCEPT !.llm_provider = u.data[Len(u.data)]]
         /\ file' = save(settings')
         /\ last' = BotStep(u, <<"query_answer", "save", "edit_message">>)
         /\ UNCHANGED <<agent_active, agent_router, llm_router, stream,
                        stopping, connected>>
    ELSE Quiet(u, <<"query_answer">>)

\* `type` is the type of fetch.handle_path's result.
handle_fetch_callback(u, type) ==
    IF ~is_authorized(u.from)
    THEN <<"query_answer">>
    ELSE IF u.data[1] = "fetch"
    THEN <<"query_answer", "tool_fetch">>
            \o (CASE type = "directory" -> <<"edit_message">>
                  [] type = "file" -> <<"reply_document">>
                  [] OTHER -> <<>>)
    ELSE <<"query_answer">>

\* The last two branches of handle_message with the test of the flag
\* lost: a free text goes to the controller whenever there is one.
handle_free_text_unflagged(u) ==
    IF agent_router.alloc
    THEN /\ agent_router' = AgentRun(agent_router)
         /\ stream' = [active |-> TRUE, sent |-> 0, cut |-> FALSE]
         /\ last' = BotStep(u, <<"reply_thinking", "agent_run">>)
         /\ UNCHANGED <<file, settings, agent_active, llm_router, stopping, connected>>
    ELSE \E env \in ChatEnv :
            LET r == IF llm_router.alloc THEN llm_router ELSE LLMRouter
                res == chat(r, settings, u.data[1], env)
            IN  /\ Len(r.history) < MaxHist
                /\ llm_router' = res.router
                /\ last' = [BotStep(u, (IF llm_router.alloc THEN <<>> ELSE <<"new_llm_router">>)
                                         \o <<"chat">> \o res.calls
                                         \o <<"reply_chat">>)
                               EXCEPT !.reply = [type |-> "chat", content |-> res.reply]]
                /\ UNCHANGED <<file, settings, agent_active, agent_router, stream,
                               stopping, connected>>

\* The last two branches of handle_message: a text that is no button.
handle_free_text(u) ==
    IF agent_active /\ agent_router.alloc
    THEN /\ agent_router' = AgentRun(agent_router)
         /\ stream' = [active |-> TRUE, sent |-> 0, cut |-> FALSE]
         /\ last' = BotStep(u, <<"reply_thinking", "agent_run">>)
         /\ UNCHANGED <<file, settings, agent_active, llm_router, stopping, connected>>
    ELSE \E env \in ChatEnv :
            LET r == IF llm_router.alloc THEN llm_router ELSE LLMRouter
                res == chat(r, settings, u.data[1], env)
            IN  /\ Len(r.history) < MaxHist
                /\ llm_router' = res.router
                /\ last' = [BotStep(u, (IF llm_router.alloc THEN <<>> ELSE <<"new_llm_router">>)
                                         \o <<"chat">> \o res.calls
                                         \o <<"reply_chat">>)
                               EXCEPT !.reply = [type |-> "chat", content |-> res.reply]]
                /\ UNCHANGED <<file, settings, agent_active, agent_router, stream,
                               stopping, connected>>

handle_message(u) ==
    IF ~is_authorized(u.from)
    THEN Quiet(u, <<>>)
    ELSE CASE u.data = <<"Status">> -> Quiet(u, handle_status(u))
           [] u.data = <<"Fetch">> -> Quiet(u, handle_fetch(u))
           [] u.data = <<"Screenshot">> ->
                \E shot \in BOOLEAN : Quiet(u, handle_screenshot(u, shot))
           [] u.data = <<"Panic">> -> handle_panic(u)
           [] u.data = <<"Agent Mode">> -> handle_agent_mode(u)
           [] u.data = <<"Settings">> -> Quiet(u, handle_settings(u))
           [] OTHER -> handle_free_text(u)

\* One pass of the chunk loop of handle_message: a chunk of type message or
\* code is sent as a reply, a chunk of another type is dropped.
ForwardChunk ==
    /\ stream.active
    /\ stream.sent < MaxChunks
    /\ stream' = [stream EXCEPT !.sent = stream.sent + 1]
    /\ \E type \in {"message", "code", "other"} :
         last' = [last EXCEPT !.sent = stream.sent + 1,
                              !.calls = CASE type = "message" -> <<"reply_message">>
                                          [] type = "code" -> <<"reply_code">>
                                          [] OTHER -> <<>>]
    /\ UNCHANGED <<file, settings, agent_active, agent_router, llm_router,
                   stopping, connected>>
    /\ UNCHANGED sockVars

\* The generator is exhausted: handle_message returns.
RunExhausted ==
    /\ stream.active
    /\ stream' = [active |-> FALSE, sent |-> 0, cut |-> FALSE]
    /\ agent_router' = AgentExhausted(agent_router)
    /\ last' = [last EXCEPT !.calls = <<"run_exhausted">>]
    /\ UNCHANGED <<file, settings, agent_active, llm_router, stopping, connected>>
    /\ UNCHANGED sockVars

----------------------------------------------------------------------------
(* bot_gateway.py: run_bot *)

\* The dispatcher with concurrent updates: a handler may start while the
\* chunk loop of another is suspended.
IdleOverlapping == ~stopping

\* The Application is built with its defaults: an update is handled to
\* completion before the next one is taken, and the updates that arrive
\* meanwhile wait.
Idle == ~stream.active /\ ~stopping

\* The handlers registered with the Application.
process_update(u) ==
    CASE u.kind = "start" -> start(u)
      [] u.kind = "text" -> handle_message(u)
      [] u.kind = "settings_cb" -> handle_settings_callback(u)
      [] u.kind = "fetch_cb" ->
            \E type \in {"directory", "file", "error"} :
                Quiet(u, handle_fetch_callback(u, type))

\* The chunks of the run that has just ended: an update handled next may
\* have arrived while any of them was still to be forwarded.
Waitable ==
    IF last.tr = "bot" /\ last.calls = <<"run_exhausted">> THEN last.sent ELSE 0

\* The next update is taken once no handler runs.
BotDispatch(U) ==
    \E u \in U, w \in 0..Waitable :
        /\ Idle
        /\ process_update([u EXCEPT !.waited = w])
        /\ UNCHANGED sockVars

BotUpdate == BotDispatch(Updates)

\* The chat traffic of the bot transport: free texts and the provider
\* buttons.
BotChat == BotDispatch({u \in Updates : u.kind = "text" /\ u.data = <<"hello">>})

BotProvider ==
    BotDispatch({u \in Updates : u.kind = "settings_cb" /\ u.data[2] = "llm"})

NextRouter ==
    \/ BotChat
    \/ BotProvider

NextBot ==
    \/ BotUpdate
    \/ StopReturns
    \/ ForwardChunk
    \/ RunExhausted

----------------------------------------------------------------------------
(* dashboard.py: handle_file_browse.  A name is the tuple of its character *)
(* codes.  An entry of a listing is its name and whether it is a           *)
(* directory; the size text of a file is left out.                         *)

HiddenMarker == 46    \* "."
ListLimit == 50

Entry(name, isDir) == [name |-> name, isDir |-> isDir]

\* The files "f01", "f02", ...
PlainFile(i) == Entry(<<102, 48 + (i \div 10), 48 + (i % 10)>>, FALSE)

\* The file ".a", the directory ".g", the directory "d" and the file "G".
SpecialEntries ==
    { Entry(<<46, 97>>, FALSE), Entry(<<46, 103>>, TRUE),
      Entry(<<100>>, TRUE), Entry(<<71>>, FALSE) }

\* Directory contents: some plain files, few or about as many as the
\* listing holds, with any of the special entries.
DirSizes == {0, 2, ListLimit, ListLimit + 1}

DirContents ==
    { {PlainFile(i) : i \in 1..n} \cup sp : n \in DirSizes, sp \in SUBSET SpecialEntries }

\* A file system: what /etc and ~/docs are, whether a directory can be
\* read, and the entries of the directory that is listed.  /, /srv/jail
\* and ~ are directories and ~/link is a symbolic link to /etc.
FileSystem(etc, docs, readable, items) ==
    [etc |-> etc, docs |-> docs, readable |-> readable, items |-> items]

DefaultFs == FileSystem("dir", "dir", TRUE, {PlainFile(1), Entry(<<46, 97>>, FALSE)})

\* The file systems browsed: every kind of /etc and ~/docs around a small
\* directory, every directory content, and a directory that cannot be read.
FileSystems ==
    { FileSystem(etc, docs, TRUE, DefaultFs.items) :
        etc \in {"dir", "none"}, docs \in {"dir", "file", "none"} }
        \cup { FileSystem("dir", "dir", TRUE, items) : items \in DirContents }
        \cup { FileSystem("dir", "dir", FALSE, {}) }

\* Path.exists and Path.is_dir
Kind(f, p) ==
    CASE p \in {<<>>, Home, <<"srv", "jail">>} -> "dir"
      [] p = <<"etc">> -> f.etc
      [] p = Home \o <<"docs">> -> f.docs
      [] OTHER -> "none"

\* Path.resolve: ".." segments are collapsed and links followed.
RECURSIVE resolve(_, _)
resolve(done, rest) ==
    IF rest = <<>>
    THEN done
    ELSE LET seg == Head(rest)
             down == Append(done, seg)
             next == IF seg = ".."
                     THEN SubSeq(done, 1, Len(done) - 1)
                     ELSE IF down = Home \o <<"link">> THEN <<"etc">>
                     ELSE down
         IN  resolve(next, Tail(rest))

\* The path of a browse message: "~", "", a relative or an absolute path.
BrowsePaths ==
    { [form |-> "tilde", segs |-> <<>>],
      [form |-> "empty", segs |-> <<>>],
      [form |-> "rel", segs |-> <<"docs">>],
      [form |-> "rel", segs |-> <<"link">>],
      [form |-> "rel", segs |-> <<"..", "..", "etc">>],
      [form |-> "abs", segs |-> Home \o <<"docs">>],
      [form |-> "abs", segs |-> Home \o <<"missing">>],
      [form |-> "abs", segs |-> <<"etc">>],
      [form |-> "abs", segs |-> <<"srv", "jail">>],
      [form |-> "abs", segs |-> <<"srv", "jail", "..", "..", "etc">>] }

\* The first lines of handle_file_browse: the path that is checked.
resolved_path(path) ==
    resolve(<<>>, IF path.form \in {"tilde", "empty"} THEN Home
                  ELSE IF path.form = "rel" THEN Home \o path.segs
                  ELSE path.segs)

\* tools/fetch.py: is_safe_path (not part of the sources at hand): the
\* canonical path is the canonical jail root or a descendant of it.
is_safe_path(p, jail) ==
    Len(jail) <= Len(p) /\ SubSeq(p, 1, Len(jail)) = jail

\* str.lower, on a name
lower(name) == [i \in DOMAIN name |-> IF name[i] \in 65..90 THEN name[i] + 32 ELSE name[i]]

\* The order of strings.
LexLess(a, b) ==
    \E k \in 1..(Len(a) + 1) :
        /\ k - 1 <= Len(b)
        /\ \A j \in 1..(k - 1) : a[j] = b[j]
        /\ IF k = Len(a) + 1
           THEN k <= Len(b)
           ELSE k <= Len(b) /\ a[k] < b[k]

\* The sort key of the listing: (not is_dir, name.lower()).
KeyLess(x, y) ==
    \/ x.isDir /\ ~y.isDir
    \/ x.isDir = y.isDir /\ LexLess(lower(x.name), lower(y.name))

\* sorted(iterdir(), key=...): each entry stands at the place given by the
\* number of entries with a smaller key (the keys of a directory's entries
\* differ, names being unique and not differing by case alone).
sorted(items) ==
    LET placed == { <<Cardinality({x \in items : KeyLess(x, e)}) + 1, e>> : e \in items }
    IN  [i \in 1..Cardinality(items) |-> (CHOOSE p \in placed : p[1] = i)[2]]

IsHidden(e) == e.name[1] = HiddenMarker

\* The listing with the test for hidden names lost.
browse_listing_unfiltered(items) ==
    LET all == sorted(items)
    IN  SubSeq(all, 1, IF Len(all) < ListLimit THEN Len(all) ELSE ListLimit)

\* The file list: of the first ListLimit sorted entries, those not hidden.
browse_listing(items) ==
    LET all == sorted(items)
        top == SubSeq(all, 1, IF Len(all) < ListLimit THEN Len(all) ELSE ListLimit)
    IN  SelectSeq(top, LAMBDA e : ~IsHidden(e))

\* The path shown: relative to the home directory where it is under it.
display_path(p) ==
    IF is_safe_path(p, Home)
    THEN [home |-> TRUE, segs |-> SubSeq(p, Len(Home) + 1, Len(p))]
    ELSE [home |-> FALSE, segs |-> p]

FilesError(text) == [type |-> "files", error |-> text]

\* handle_file_browse with the existence test before the jail test.
handle_file_browse_exists_first(path, s, f) ==
    LET p == resolved_path(path)
    IN  IF Kind(f, p) = "none"
        THEN [calls |-> <<"exists", "send_files">>,
              reply |-> FilesError("Path does not exist")]
        ELSE IF ~is_safe_path(p, s.file_jail_path)
        THEN [calls |-> <<"exists", "is_safe_path", "send_files">>,
              reply |-> FilesError("Access denied: path outside allowed directory")]
        ELSE IF Kind(f, p) # "dir"
        THEN [calls |-> <<"exists", "is_safe_path", "is_dir", "send_files">>,
              reply |-> FilesError("Not a directory")]
        ELSE IF ~f.readable
        THEN [calls |-> <<"exists", "is_safe_path", "is_dir", "list_files", "send_files">>,
              reply |-> FilesError("Permission denied")]
        ELSE [calls |-> <<"exists", "is_safe_path", "is_dir", "list_files", "send_files">>,
              reply |-> [type |-> "files", path |-> display_path(p),
                         files |-> browse_listing(f.items)]]

\* handle_file_browse: the calls made and the message sent.
handle_file_browse(path, s, f) ==
    LET p == resolved_path(path)
    IN  IF ~is_safe_path(p, s.file_jail_path)
        THEN [calls |-> <<"is_safe_path", "send_files">>,
              reply |-> FilesError("Access denied: path outside allowed directory")]
        ELSE IF Kind(f, p) = "none"
        THEN [calls |-> <<"is_safe_path", "exists", "send_files">>,
              reply |-> FilesError("Path does not exist")]
        ELSE IF Kind(f, p) # "dir"
        THEN [calls |-> <<"is_safe_path", "exists", "is_dir", "send_files">>,
              reply |-> FilesError("Not a directory")]
        ELSE IF ~f.readable
        THEN [calls |-> <<"is_safe_path", "exists", "is_dir", "list_files", "send_files">>,
              reply |-> FilesError("Permission denied")]
        ELSE [calls |-> <<"is_safe_path", "exists", "is_dir", "list_files", "send_files">>,
              reply |-> [type |-> "files", path |-> display_path(p),
                         files |-> browse_listing(f.items)]]

----------------------------------------------------------------------------
(* dashboard.py: websocket_endpoint.  The protocol carries no requester    *)
(* identity; `peer` is history: who opened the connection.                 *)

ClosedConn ==
    [st |-> "closed", peer |-> NoUser, settings |-> DefaultSettings,
     agent_active |-> FALSE]

Absent == "absent"

\* The inbound JSON messages, by action.  The reminder, intention and skill
\* actions are one kind each: they are delegated to the scheduler, the
\* daemon and the skill loader.
SockData ==
    [action : {"chat", "get_settings", "navigate", "reminder",
               "intention", "skill", "other"}]
        \cup [action : {"browse"}, path : BrowsePaths]
        \cup [action : {"tool"},
              tool : {"status", "screenshot", "fetch", "panic", "other"}]
        \cup [action : {"toggle_agent"}, active : BOOLEAN]
        \cup [action : {"settings"},
              agent_backend : {"claude_code", Absent},
              llm_provider : {"ollama", Absent},
              anthropic_model : {"claude-opus-4", Absent},
              bypass_permissions : {"true", Absent}]
        \cup [action : {"save_api_key"},
              provider : {"anthropic", "openai", "other"},
              key : {"sk-1", NoKey}]

\* The record of a step of connection c's handler.
SockStep(c, peer, d, calls) ==
    [tr |-> "sock", from |-> peer, owner |-> FileOwner, conn |-> c,
     kind |-> d.action,
     data |-> CASE d.action = "tool" -> <<d.tool>>
                [] d.action = "browse" -> <<d.path>>
                [] OTHER -> <<>>,
     waited |-> 0, sent |-> 0, again |-> FALSE, calls |-> calls,
     reply |-> NoReply]

\* The connection is accepted and tracked; registration with the adapter
\* or the welcome send may raise (`fail`), before the try block is entered.
\* History: a connection that registers or deregisters while a broadcast
\* is in progress is not registered for the whole of it.
Churn(c) ==
    bcast' = IF bcast.kind # "none"
                /\ (conns'[c].st # conns[c].st
                        \/ (c \in active_connections') # (c \in active_connections))
             THEN [bcast EXCEPT !.churned = @ \cup {c}]
             ELSE bcast

SockOpen(C) ==
    \E c \in C, peer \in Users, fail \in {"none", "register", "welcome"} :
        /\ conns[c].st = "closed"
        /\ c \notin active_connections
        /\ active_connections' = active_connections \cup {c}
        /\ IF fail = "none"
           THEN /\ conns' = [conns EXCEPT ![c] =
                                [st |-> "open", peer |-> peer,
                                 settings |-> load(file), agent_active |-> FALSE]]
                /\ last' = SockStep(c, peer, [action |-> "connect"],
                                    <<"accept", "register", "send_welcome", "load">>)
           ELSE /\ UNCHANGED conns
                /\ last' = SockStep(c, peer, [action |-> "connect"],
                                    IF fail = "register"
                                    THEN <<"accept", "error">>
                                    ELSE <<"accept", "register", "error">>)
        /\ Churn(c)
        /\ UNCHANGED <<file, bus_runs, fs>>
        /\ UNCHANGED botVars

SockConnect == SockOpen(Conns)

\* The handler leaves its loop: the finally block.
Closes(c, d, calls) ==
    /\ conns' = [conns EXCEPT ![c] = ClosedConn]
    /\ active_connections' = active_connections \ {c}
    /\ last' = SockStep(c, conns[c].peer, d, calls \o <<"unregister">>)
    /\ UNCHANGED <<file, bus_runs>>

\* An action that only calls out and answers.
Answers(c, d, calls) ==
    /\ last' = SockStep(c, conns[c].peer, d, calls)
    /\ UNCHANGED <<file, conns, active_connections, bus_runs>>

\* receive_json raises WebSocketDisconnect.
SockClose(C) ==
    \E c \in C :
        /\ conns[c].st = "open"
        /\ Closes(c, [action |-> "disconnect"], <<>>)
        /\ Churn(c)
        /\ UNCHANGED fs
        /\ UNCHANGED botVars

SockDisconnect == SockClose(Conns)

\* handle_tool.  `ok` is whether the tool returned its result.
handle_tool(c, d, ok) ==
    CASE d.tool = "status" -> <<"tool_status", "send_status">>
      [] d.tool = "screenshot" ->
            <<"tool_screenshot", IF ok THEN "send_screenshot" ELSE "send_error">>
      [] d.tool = "fetch" -> <<"list_directory", "send_message">>
      [] d.tool = "panic" -> <<"send_panic_message">>
      [] OTHER -> <<"send_error">>

\* action == "settings"
settings_action(c, d) ==
    LET s == conns[c].settings
        s1 == [s EXCEPT !.agent_backend =
                            IF d.agent_backend = Absent THEN @ ELSE d.agent_backend,
                        !.llm_provider =
                            IF d.llm_provider = Absent THEN @ ELSE d.llm_provider]
        s2 == IF d.anthropic_model # Absent
              THEN [s1 EXCEPT !.anthropic_model = d.anthropic_model]
              ELSE s1
    IN  IF d.bypass_permissions # Absent
        THEN \* Settings has no field bypass_permissions: the assignment raises
             Closes(c, d, <<"error">>)
        ELSE /\ conns' = [conns EXCEPT ![c].settings = s2]
             /\ file' = save(s2)
             /\ last' = SockStep(c, conns[c].peer, d, <<"save", "send_message">>)
             /\ UNCHANGED <<active_connections, bus_runs>>

\* action == "save_api_key"
save_api_key(c, d) ==
    LET s == conns[c].settings
        s1 == IF d.provider = "anthropic"
              THEN [s EXCEPT !.anthropic_api_key = d.key, !.llm_provider = "anthropic"]
              ELSE [s EXCEPT !.openai_api_key = d.key, !.llm_provider = "openai"]
    IN  IF d.provider \in {"anthropic", "openai"} /\ d.key # NoKey
        THEN /\ conns' = [conns EXCEPT ![c].settings = s1]
             /\ file' = save(s1)
             /\ last' = SockStep(c, conns[c].peer, d, <<"save", "save", "send_message">>)
             /\ UNCHANGED <<active_connections, bus_runs>>
        ELSE Answers(c, d, <<"send_error">>)

\* The settings event of the get_settings action: of each provider key it
\* carries bool(key); `running` is the agent loop's flag.
settings_event(s, active, running) ==
    [type              |-> "settings",
     agentBackend      |-> s.agent_backend,
     llmProvider       |-> s.llm_provider,
     anthropicModel    |-> s.anthropic_model,
     bypassPermissions |-> s.bypass_permissions,
     hasAnthropicKey   |-> s.anthropic_api_key # NoKey,
     hasOpenaiKey      |-> s.openai_api_key # NoKey,
     agentActive       |-> active,
     agentStatus       |-> IF running THEN "running" ELSE "stopped"]

\* action == "get_settings": the event is built from the session's settings
\* and sent.  The read of an attribute that Settings does not declare
\* raises, before anything is sent.
get_settings(c, d) ==
    IF "bypass_permissions" \in SettingsFields
    THEN \E running \in BOOLEAN :
            /\ last' = [SockStep(c, conns[c].peer, d, <<"send_settings">>)
                            EXCEPT !.reply = settings_event(conns[c].settings,
                                                            conns[c].agent_active,
                                                            running)]
            /\ UNCHANGED <<file, conns, active_connections, bus_runs>>
    ELSE Closes(c, d, <<"error">>)

\* One pass of the receive loop.
websocket_action(c, d) ==
    CASE d.action = "chat" ->
            /\ bus_runs' = bus_runs \cup {c}
            /\ last' = SockStep(c, conns[c].peer, d, <<"bus_chat">>)
            /\ UNCHANGED <<file, conns, active_connections>>
      [] d.action = "tool" ->
            \E ok \in BOOLEAN : Answers(c, d, handle_tool(c, d, ok))
      [] d.action = "toggle_agent" ->
            /\ conns' = [conns EXCEPT ![c].agent_active = d.active]
            /\ last' = SockStep(c, conns[c].peer, d, <<"send_notification">>)
            /\ UNCHANGED <<file, active_connections, bus_runs>>
      [] d.action = "settings" -> settings_action(c, d)
      [] d.action = "save_api_key" -> save_api_key(c, d)
      [] d.action = "get_settings" -> get_settings(c, d)
      [] d.action = "navigate" -> Answers(c, d, <<"list_directory", "send_message">>)
      [] d.action = "browse" ->
            LET res == handle_file_browse(d.path, conns[c].settings, fs)
            IN  /\ last' = [SockStep(c, conns[c].peer, d, res.calls)
                                EXCEPT !.reply = res.reply]
                /\ UNCHANGED <<file, conns, active_connections, bus_runs>>
      [] d.action = "reminder" -> Answers(c, d, <<"scheduler", "send_result">>)
      [] d.action = "intention" -> Answers(c, d, <<"daemon", "send_result">>)
      [] d.action = "skill" -> Answers(c, d, <<"skills", "send_result">>)
      [] OTHER -> Answers(c, d, <<>>)

\* A message of D is received on an open connection.
SockDispatch(D) ==
    \E c \in Conns, d \in D :
        /\ conns[c].st = "open"
        /\ websocket_action(c, d)
        /\ Churn(c)
        /\ UNCHANGED fs
        /\ UNCHANGED botVars

SockAction == SockDispatch(SockData)

\* The agent loop ends the execution it started for chat id c.
BusDone ==
    \E c \in bus_runs :
        /\ bus_runs' = bus_runs \ {c}
        /\ UNCHANGED <<file, conns, active_connections, bcast, fs, last>>
        /\ UNCHANGED botVars

\* The browse action.
SockBrowse == SockDispatch({d \in SockData : d.action = "browse"})

----------------------------------------------------------------------------
(* dashboard.py: broadcast_reminder and broadcast_intention.  `snap` is    *)
(* the copy of active_connections the loop iterates, `todo` what is left   *)
(* of it; got, failed and churned are history.                             *)

NoCast ==
    [kind |-> "none", snap |-> <<>>, todo |-> <<>>, got |-> {}, failed |-> {},
     churned |-> {}, raised |-> FALSE]

\* The orders in which a list may hold the connections of S.
Orders(S) ==
    { s \in [1..Cardinality(S) -> S] :
        \A i, j \in 1..Cardinality(S) : i # j => s[i] # s[j] }

\* The scheduler or the daemon calls the broadcast: the loop is entered.
\* broadcast_reminder has gone through the adapter's broadcast first.
BroadcastStart ==
    \E kind \in {"reminder", "intention"}, order \in Orders(active_connections) :
        /\ bcast.kind = "none"
        /\ bcast' = [NoCast EXCEPT !.kind = kind, !.snap = order, !.todo = order]
        /\ last' = [NoLast EXCEPT !.tr = "cast", !.kind = kind,
                                  !.calls = IF kind = "reminder"
                                            THEN <<"adapter_broadcast">>
                                            ELSE <<>>]
        /\ UNCHANGED <<file, conns, active_connections, bus_runs, fs>>
        /\ UNCHANGED botVars

\* One pass of the loop without its try statement: a failing send raises
\* out of the broadcast.
BroadcastSendUnguarded ==
    /\ bcast.kind # "none"
    /\ bcast.todo # <<>>
    /\ ~bcast.raised
    /\ LET c == Head(bcast.todo)
           alive == c \notin bcast.churned /\ conns[c].st = "open"
       IN  \E ok \in BOOLEAN :
            IF ok /\ alive
            THEN bcast' = [bcast EXCEPT !.todo = Tail(@), !.got = @ \cup {c}]
            ELSE bcast' = [bcast EXCEPT !.failed = @ \cup {c}, !.raised = TRUE]
    /\ UNCHANGED <<file, conns, active_connections, bus_runs, fs, last>>
    /\ UNCHANGED botVars

\* One pass of the loop: the send to the next connection of the copy.  It
\* fails on a connection that has closed, and may fail on any (`ok`); a
\* failure is dropped, and broadcast_intention removes the connection.
BroadcastSend ==
    /\ bcast.kind # "none"
    /\ bcast.todo # <<>>
    /\ ~bcast.raised
    /\ LET c == Head(bcast.todo)
           alive == c \notin bcast.churned /\ conns[c].st = "open"
       IN  \E ok \in BOOLEAN :
            IF ok /\ alive
            THEN /\ bcast' = [bcast EXCEPT !.todo = Tail(@), !.got = @ \cup {c}]
                 /\ UNCHANGED active_connections
            ELSE /\ bcast' = [bcast EXCEPT !.todo = Tail(@), !.failed = @ \cup {c}]
                 /\ active_connections' =
                        IF bcast.kind = "intention" /\ c \notin bcast.churned
                        THEN active_connections \ {c}
                        ELSE active_connections
    /\ UNCHANGED <<file, conns, bus_runs, fs, last>>
    /\ UNCHANGED botVars

\* The loop has ended, or an error left it: the broadcast returns.
BroadcastReturn ==
    /\ bcast.kind # "none"
    /\ bcast.todo = <<>> \/ bcast.raised
    /\ bcast' = NoCast
    /\ last' = [NoLast EXCEPT !.tr = "cast", !.kind = bcast.kind,
                              !.calls = IF bcast.raised THEN <<"error">> ELSE <<"returned">>]
    /\ UNCHANGED <<file, conns, active_connections, bus_runs, fs>>
    /\ UNCHANGED botVars

\* Connections come and go while events are broadcast.
CastConnect == SockOpen(CastConns)

CastDisconnect == SockClose(CastConns)

NextCast ==
    \/ CastConnect
    \/ CastDisconnect
    \/ BroadcastStart
    \/ BroadcastSend
    \/ BroadcastReturn

\* The pairing command of the bot transport.
BotStart == BotDispatch({u \in Updates : u.kind = "start"})

NextSock ==
    \/ BotStart
    \/ SockConnect
    \/ SockAction
    \/ SockDisconnect
    \/ BusDone

\* The settings traffic of both transports: pairing and the settings
\* buttons of the bot, the settings and save_api_key actions of the socket.
BotSettings == BotDispatch({u \in Updates : u.kind \in {"start", "settings_cb"}})

SockSettings ==
    SockDispatch({d \in SockData : d.action \in {"settings", "save_api_key"}})

NextSettings ==
    \/ BotSettings
    \/ SockConnect
    \/ SockSettings
    \/ SockDisconnect

\* Settings.save called on the gateway's instance.
ConfigSave ==
    /\ file' = save(settings)
    /\ last' = [NoLast EXCEPT !.tr = "config", !.kind = "save", !.calls = <<"save">>]
    /\ UNCHANGED sockVars
    /\ UNCHANGED botVars

\* Settings.save and, by a socket session's start, Settings.load.
NextConfig ==
    \/ ConfigSave
    \/ SockConnect
    \/ SockDisconnect

----------------------------------------------------------------------------

Init ==
    /\ file = <<>>
    /\ settings = load(file)
    /\ agent_active = FALSE
    /\ agent_router = NoAgentRouter
    /\ llm_router = NoLLMRouter
    /\ stream = [active |-> FALSE, sent |-> 0, cut |-> FALSE]
    /\ stopping = FALSE
    /\ connected = {}
    /\ conns = [c \in Sockets |-> ClosedConn]
    /\ active_connections = {}
    /\ bus_runs = {}
    /\ bcast = NoCast
    /\ fs = DefaultFs
    /\ last = NoLast

\* The gateway was constructed with any settings instance.
InitConfig ==
    /\ file = <<>>
    /\ settings \in SettingsValues
    /\ agent_active = FALSE
    /\ agent_router = NoAgentRouter
    /\ llm_router = NoLLMRouter
    /\ stream = [active |-> FALSE, sent |-> 0, cut |-> FALSE]
    /\ stopping = FALSE
    /\ connected = {}
    /\ conns = [c \in Sockets |-> ClosedConn]
    /\ active_connections = {}
    /\ bus_runs = {}
    /\ bcast = NoCast
    /\ fs = DefaultFs
    /\ last = NoLast

\* The gateway was constructed with the settings of a paired installation,
\* loaded from its file.
InitRouter ==
    /\ settings \in {s \in SettingsValues :
                        /\ s.allowed_user_id # NoUser
                        /\ s = load(save(s))}
    /\ file = save(settings)
    /\ agent_active = FALSE
    /\ agent_router = NoAgentRouter
    /\ llm_router = NoLLMRouter
    /\ stream = [active |-> FALSE, sent |-> 0, cut |-> FALSE]
    /\ stopping = FALSE
    /\ connected = {}
    /\ conns = [c \in Sockets |-> ClosedConn]
    /\ active_connections = {}
    /\ bus_runs = {}
    /\ bcast = NoCast
    /\ fs = DefaultFs
    /\ last = NoLast

\* A socket session is open, with the jail root of its settings, over any
\* of the file systems.
InitBrowse ==
    /\ file = <<>>
    /\ settings = load(file)
    /\ agent_active = FALSE
    /\ agent_router = NoAgentRouter
    /\ llm_router = NoLLMRouter
    /\ stream = [active |-> FALSE, sent |-> 0, cut |-> FALSE]
    /\ stopping = FALSE
    /\ connected = {}
    /\ \E jail \in {Home, <<"srv", "jail">>} :
         conns = [c \in Sockets |->
                    IF c = 1
                    THEN [st |-> "open", peer |-> 1,
                          settings |-> [DefaultSettings EXCEPT !.file_jail_path = jail],
                          agent_active |-> FALSE]
                    ELSE ClosedConn]
    /\ active_connections = {1}
    /\ bus_runs = {}
    /\ bcast = NoCast
    /\ fs \in FileSystems
    /\ last = NoLast

\* The bot transport alone.
SpecBot == Init /\ [][NextBot]_vars

\* The socket transport, with the pairing command of the bot transport.
SpecSock == Init /\ [][NextSock]_vars

\* The settings traffic of both transports.
SpecSettings == Init /\ [][NextSettings]_vars

\* The chat router behind the bot transport.
SpecRouter == InitRouter /\ [][NextRouter]_vars

\* Saving and loading settings instances.
SpecConfig == InitConfig /\ [][NextConfig]_vars

\* Broadcasts over connections that come and go.
SpecCast == Init /\ [][NextCast]_vars

\* The browse action over the file systems.
SpecBrowse == InitBrowse /\ [][SockBrowse]_vars

\* Both transports.
Next == NextBot \/ NextSock

Spec == Init /\ [][Next]_vars

----------------------------------------------------------------------------
(* Properties *)

\* The calls that act for the requester: persistence, tools, chat, agent,
\* file listings and the delegated services.
ActingCalls ==
    { "save", "notify", "notify_failed", "tool_status", "tool_fetch",
      "tool_screenshot", "chat", "new_llm_router", "new_agent_router",
      "agent_run", "agent_stop_called", "agent_stop", "bus_chat",
      "list_directory", "list_files", "scheduler", "daemon", "skills" }

Acts(calls) == \E i \in DOMAIN calls : calls[i] \in ActingCalls

OwnerPanic(r) ==
    r.kind = "text" /\ r.data = <<"Panic">> /\ r.from = settings.allowed_user_id

\* C1: on the bot transport, once an owner is bound the gateway's owner id
\* never changes, whatever is sent by whom afterwards, and at most one
\* requester ever receives the "Connected" pairing reply.
C1_OwnerFixedOnceBound ==
    [][ /\ settings.allowed_user_id # NoUser =>
            /\ settings'.allowed_user_id = settings.allowed_user_id
            /\ connected' = connected
        /\ Cardinality(connected') <= 1 ]_vars

\* C1's case: an owner is bound and a different requester has sent /start.
C1_Witness ==
    /\ settings.allowed_user_id # NoUser
    /\ connected = {settings.allowed_user_id}
    /\ last.tr = "bot"
    /\ last.kind = "start"
    /\ last.from # settings.allowed_user_id
    /\ last.calls = <<"reply_unauthorized">>

\* C2: on the bot transport, once an owner is bound, an inbound action of a
\* requester other than the owner changes neither the settings, the settings
\* file, the agent-mode flag, the agent controller nor the conversation
\* history, and makes no tool, chat or agent call.
C2_StrangerChangesNothing ==
    [][ (last'.tr = "bot" /\ last'.owner # NoUser /\ last'.from # last'.owner) =>
            /\ UNCHANGED <<settings, file, agent_active, agent_router, llm_router>>
            /\ ~Acts(last'.calls) ]_vars

\* C2's case: with agent mode on, a stranger has pressed the Agent Mode
\* button.
C2_Witness ==
    /\ last.tr = "bot"
    /\ last.owner # NoUser
    /\ last.from # last.owner
    /\ last.kind = "text"
    /\ last.data = <<"Agent Mode">>
    /\ agent_active

\* C3: on the socket transport, an action of a requester other than the
\* bound owner mutates no settings and triggers no tool, chat or file
\* listing.
C3_SockOwnerOnly ==
    (/\ last.tr = "sock"
     /\ last.kind \notin {"connect", "disconnect"}
     /\ last.owner # NoUser
     /\ last.from # last.owner)
        => ~Acts(last.calls)

\* C4: once the pairing /start has written the owner id to the settings
\* file, no later save changes or clears the owner id stored in the file.
C4_PersistedOwnerKept ==
    connected # {} => connected = {FileOwner}

\* C5: no chunk of an agent run is sent as a reply after the stop call of
\* handle_panic has returned during that run.
C5_NoChunkAfterStop ==
    ~(stream.cut /\ last.calls \in {<<"reply_message">>, <<"reply_code">>})

\* C5's case: a panic was received while a run was forwarding chunks, and
\* its stop call has returned.
C5_Witness ==
    /\ OwnerPanic(last)
    /\ last.waited >= 1
    /\ last.calls = <<"agent_stop", "reply_panic">>
    /\ ~stream.active

\* C6: whenever the owner's panic has been handled, from any session state
\* and however many times in a row, agent mode is off and no error was
\* raised.
C6_PanicIdempotent ==
    (last.tr = "bot" /\ OwnerPanic(last) /\ ~stopping) =>
        /\ ~agent_active
        /\ last.calls[Len(last.calls)] = "reply_panic"
        /\ \A i \in DOMAIN last.calls : last.calls[i] # "error"

\* C6's case: a second panic in a row, with no controller ever allocated.
C6_Witness ==
    /\ last.tr = "bot"
    /\ OwnerPanic(last)
    /\ last.again
    /\ ~stopping
    /\ ~agent_router.alloc

\* C7: when handle_agent_mode flips the flag from on to off while a
\* controller exists, stop is called on that controller.
C7_ToggleOffStops ==
    (/\ last.tr = "bot"
     /\ last.kind = "text"
     /\ last.data = <<"Agent Mode">>
     /\ last.from = last.owner
     /\ ~agent_active
     /\ agent_router.alloc)
        => \E i \in DOMAIN last.calls : last.calls[i] \in {"agent_stop_called", "agent_stop"}

\* C8: the flag is never off while the stop of an allocated controller has
\* not completed.
C8_StoppedBeforeOff ==
    ~agent_active => (~agent_router.alloc \/ agent_router.st = "stopped")

\* C9: a panic received while a run is streaming takes effect before the
\* run's chunk sequence is exhausted: no panic of the owner is handled only
\* after the run has ended with chunks forwarded while the panic waited.
C9_PanicCutsRun ==
    ~(last.tr = "bot" /\ OwnerPanic(last) /\ last.waited >= 1)

\* C10: on the socket transport, once a tool{panic} action has been
\* answered, the session's agent mode is off and no agent execution started
\* before it is still running.
C10_SockPanicKills ==
    (last.tr = "sock" /\ last.kind = "tool" /\ last.data = <<"panic">>) =>
        /\ ~conns[last.conn].agent_active
        /\ last.conn \notin bus_runs

Called(r, call) == \E i \in DOMAIN r.calls : r.calls[i] = call

\* The owner's press of the Agent Mode button has just switched agent mode on.
OwnerActivated(r) ==
    /\ r.tr = "bot"
    /\ r.kind = "text"
    /\ r.data = <<"Agent Mode">>
    /\ r.from = settings.allowed_user_id
    /\ agent_active

\* C11: once the gateway holds an agent controller, no step constructs
\* another one, and the controller it holds stays the same one with the
\* backend variant it was constructed with, whatever toggles, panics and
\* settings changes follow.
C11_ControllerAllocatedOnce ==
    [][ agent_router.alloc =>
            /\ agent_router'.alloc
            /\ agent_router'.backend = agent_router.backend
            /\ ~Called(last', "new_agent_router") ]_vars

\* C11's case: the backend setting was changed while the controller lived,
\* the controller was stopped by a panic, and agent mode was switched on
\* again.
C11_Witness ==
    /\ OwnerActivated(last)
    /\ last.calls = <<"reply_agent_on">>
    /\ agent_router.st = "stopped"
    /\ settings.agent_backend # agent_router.backend

\* C12: when the owner activates agent mode after a panic has stopped the
\* controller, the controller that will serve the next runs is bound to the
\* backend variant the settings name at that time.
C12_BackendAfterReactivation ==
    (OwnerActivated(last) /\ agent_router.st = "stopped") =>
        agent_router.backend = settings.agent_backend

\* The step confirmed a settings change to its requester.
Confirmed(r) ==
    \/ r.tr = "bot" /\ r.kind = "settings_cb" /\ Called(r, "edit_message")
    \/ r.tr = "sock" /\ r.kind \in {"settings", "save_api_key"}
            /\ Called(r, "send_message")

\* The settings instance of the session that took the step.
SessionSettings(r) == IF r.tr = "bot" THEN settings ELSE conns[r.conn].settings

\* C13: whenever a settings button of the bot, or a settings or
\* save_api_key action of the socket, has confirmed a change, the save was
\* made before the confirmation was sent and the settings file holds the
\* changed settings of that session; no change is confirmed unsaved.
C13_SavedBeforeConfirmed ==
    Confirmed(last) =>
        /\ \E i, j \in DOMAIN last.calls :
                /\ i < j
                /\ last.calls[i] = "save"
                /\ last.calls[j] \in {"edit_message", "send_message"}
        /\ file = save(SessionSettings(last))

\* C13's case: the bot's backend button has changed the backend, and after
\* it a socket session's save_api_key action has been confirmed.
C13_Witness ==
    /\ settings.agent_backend = "claude_code"
    /\ last.tr = "sock"
    /\ last.kind = "save_api_key"
    /\ Confirmed(last)
    /\ conns[last.conn].settings.openai_api_key # NoKey

\* C14: the settings are one value shared by all sessions: the gateway and
\* every open socket session hold, field by field, what the settings file
\* holds, so that each reads what any other saved last and none saves a
\* stale value over it.
C14_SettingsShared ==
    /\ \A c \in Conns : conns[c].st = "open" =>
            \A k \in SavedFields : conns[c].settings[k] = load(file)[k]
    /\ \A k \in SavedFields : settings[k] = load(file)[k]

\* C15: a settings instance loaded from the file that Settings.save wrote
\* for an instance s equals s on every field: backend and provider
\* selectors, credentials, model names, owner id, jail root and bind address.
C15_SaveLoadRoundTrip ==
    (/\ last.tr = "sock"
     /\ last.kind = "connect"
     /\ Called(last, "load")
     /\ file = save(settings))
        => conns[last.conn].settings = settings

\* C16: when /start has bound its sender and the pairing notification
\* failed, the owner id is set in memory and in the settings file, the save
\* was made before the notification was attempted, and the "Connected"
\* reply was sent after it.
C16_BindSurvivesNotifyFailure ==
    (last.tr = "bot" /\ last.kind = "start" /\ Called(last, "notify_failed")) =>
        /\ settings.allowed_user_id = last.from
        /\ FileOwner = last.from
        /\ last.calls = <<"save", "notify_failed", "reply_connected">>
        /\ last.from \in connected

\* C16's case: the first /start, with the setup service unreachable.
C16_Witness ==
    /\ last.tr = "bot"
    /\ last.kind = "start"
    /\ last.owner = NoUser
    /\ Called(last, "notify_failed")
    /\ settings.allowed_user_id = last.from

\* The owner's free text has been answered by the chat router.
OwnerChat(r) ==
    r.tr = "bot" /\ r.kind = "text" /\ r.data = <<"hello">> /\ Called(r, "chat")

\* The prerequisite of provider b: the probe's answer for the local
\* service, the credential for a remote one.
Satisfied(b, r, s) ==
    CASE b = "ollama" -> Called(r, "probe_up")
      [] b = "openai" -> s.openai_api_key # NoKey
      [] b = "anthropic" -> s.anthropic_api_key # NoKey
      [] OTHER -> FALSE

AutoOrder == <<"ollama", "openai", "anthropic">>

\* The first provider of AutoOrder whose prerequisite is satisfied.
FirstSatisfied(r, s) ==
    IF \E i \in DOMAIN AutoOrder : Satisfied(AutoOrder[i], r, s)
    THEN AutoOrder[CHOOSE i \in DOMAIN AutoOrder :
                        /\ Satisfied(AutoOrder[i], r, s)
                        /\ \A j \in 1..(i - 1) : ~Satisfied(AutoOrder[j], r, s)]
    ELSE NoBackend

\* C17: when a chat has run detection with the provider set to auto, the
\* backend selected is the first satisfied one in the order local service,
\* openai, anthropic, and none if none is satisfied.
C17_AutoOrder ==
    (OwnerChat(last) /\ Called(last, "detect") /\ settings.llm_provider = "auto") =>
        llm_router.backend = FirstSatisfied(last, settings)

\* C17's case: the local service is reachable and both credentials are set.
C17_Witness ==
    /\ OwnerChat(last)
    /\ Called(last, "detect")
    /\ Called(last, "probe_up")
    /\ settings.llm_provider = "auto"
    /\ settings.openai_api_key # NoKey
    /\ settings.anthropic_api_key # NoKey
    /\ llm_router.backend = "ollama"

\* C18: when a chat has run detection with an explicit provider set, the
\* backend selected is that provider if its own prerequisite is satisfied
\* and none otherwise, whatever the other providers' prerequisites are.
C18_ExplicitNoFallback ==
    (/\ OwnerChat(last)
     /\ Called(last, "detect")
     /\ settings.llm_provider \in {"ollama", "openai", "anthropic"})
        => llm_router.backend =
                IF Satisfied(settings.llm_provider, last, settings)
                THEN settings.llm_provider
                ELSE NoBackend

\* C18's case: openai is configured without its credential while the
\* anthropic credential is set.
C18_Witness ==
    /\ OwnerChat(last)
    /\ Called(last, "detect")
    /\ settings.llm_provider = "openai"
    /\ settings.openai_api_key = NoKey
    /\ settings.anthropic_api_key # NoKey
    /\ llm_router.backend = NoBackend

\* C19: a chat on a router that has served a chat before runs no detection.
C19_DetectedOnce ==
    (OwnerChat(last) /\ ~Called(last, "new_llm_router")) => ~Called(last, "detect")

\* C20: a chat whose provider call fails raises nothing and is answered,
\* and leaves the history longer by one turn, the user turn of its message.
C20_FailedCallKeepsUserTurn ==
    [][ (OwnerChat(last') /\ Called(last', "provider_call_failed")) =>
            /\ llm_router'.history =
                    Append(llm_router.history, Turn("user", last'.data[1]))
            /\ last'.calls[Len(last'.calls)] = "reply_chat"
            /\ ~Called(last', "error") ]_vars

\* C20's case: the provider call of a chat failed on a router with a
\* selected backend.
C20_Witness ==
    /\ OwnerChat(last)
    /\ Called(last, "provider_call_failed")
    /\ llm_router.backend # NoBackend
    /\ Len(llm_router.history) = 1
    /\ llm_router.history[1].role = "user"

\* Call a was made before call b.
Before(r, a, b) ==
    \E i, j \in DOMAIN r.calls : i < j /\ r.calls[i] = a /\ r.calls[j] = b

\* C21: a chat whose provider call returns leaves the history longer by two
\* turns, the user turn with the message and then the assistant turn with
\* the reply that chat returned, the user turn being appended before the
\* provider call; the turns before them are as they were.
C21_ChatAppendsTwoTurns ==
    [][ (OwnerChat(last') /\ Called(last', "provider_call")) =>
            /\ last'.reply.type = "chat"
            /\ llm_router'.history =
                    llm_router.history
                        \o << Turn("user", last'.data[1]),
                              Turn("assistant", last'.reply.content) >>
            /\ Before(last', "append_user", "provider_call")
            /\ Before(last', "provider_call", "append_assistant") ]_vars

\* C21's case: a chat has succeeded on a router whose history held a turn.
C21_Witness ==
    /\ OwnerChat(last)
    /\ Called(last, "provider_call")
    /\ Len(llm_router.history) = 3

\* C22: a chat on a router for which detection selects no backend raises
\* nothing, answers the guided diagnostic, makes no provider call and
\* leaves the history as it was.
C22_NoBackendFailsOpen ==
    [][ (OwnerChat(last') /\ llm_router'.backend = NoBackend) =>
            /\ last'.reply = [type |-> "chat", content |-> "No LLM backend available"]
            /\ llm_router'.history = llm_router.history
            /\ ~Called(last', "provider_call")
            /\ ~Called(last', "provider_call_failed")
            /\ ~Called(last', "error")
            /\ last'.calls[Len(last'.calls)] = "reply_chat" ]_vars

\* C22's case: openai is configured without its credential, the local
\* service is up and the anthropic credential is set, and a chat was
\* answered.
C22_Witness ==
    /\ OwnerChat(last)
    /\ Called(last, "detect")
    /\ llm_router.backend = NoBackend
    /\ settings.llm_provider = "openai"
    /\ settings.anthropic_api_key # NoKey
    /\ last.reply.type = "chat"

\* C23: after an action of a socket session has raised an error, the
\* session's receive loop is still running: the connection is open for its
\* next action.
C23_ErrorIsolated ==
    (/\ last.tr = "sock"
     /\ last.kind \notin {"connect", "disconnect"}
     /\ Called(last, "error"))
        => conns[last.conn].st = "open"

\* C25: only connections whose handler is running are in
\* active_connections: a connection whose handler has terminated, however
\* it did, is no longer in the broadcast set.
C25_DeregisteredOnEnd ==
    \A c \in active_connections : conns[c].st = "open"

\* C29: a free text of the owner is given to the agent controller's run
\* exactly when the agent-mode flag is on and a controller is allocated, and
\* to the chat router otherwise; so the free text that follows a panic or a
\* toggle-off is answered by the chat router.
C29_FreeTextRouting ==
    [][ (/\ ~stream.active
         /\ ~stopping
         /\ last'.tr = "bot"
         /\ last'.kind = "text"
         /\ last'.data = <<"hello">>
         /\ last'.from = settings.allowed_user_id) =>
            IF agent_active /\ agent_router.alloc
            THEN Called(last', "agent_run") /\ ~Called(last', "chat")
            ELSE Called(last', "chat") /\ ~Called(last', "agent_run") ]_vars

\* C29's case: after a panic has stopped the controller, the owner's free
\* text was answered by the chat router.
C29_Witness ==
    /\ OwnerChat(last)
    /\ last.from = settings.allowed_user_id
    /\ agent_router.st = "stopped"
    /\ ~agent_active

\* C30: whenever the agent-mode flag is on, a controller is allocated.
C30_FlagHasController ==
    agent_active => agent_router.alloc

Browsed(r) == r.tr = "sock" /\ r.kind = "browse"

\* Path p is the root r or a descendant of it.
Within(p, r) == \E n \in 0..Len(p) : SubSeq(p, 1, n) = r

AccessDenied == [type |-> "files", error |-> "Access denied: path outside allowed directory"]

\* C26: when the canonical form of the path of a browse action is neither
\* the jail root nor under it, the answer is the access-denied error, given
\* without any test of the path's existence or kind, so the same whether
\* the path exists or not; and a file listing is only sent for a canonical
\* path within the jail.
C26_BrowseJailed ==
    Browsed(last) =>
        LET p == resolved_path(last.data[1])
            jail == conns[last.conn].settings.file_jail_path
        IN  /\ ~Within(p, jail) =>
                    /\ last.reply = AccessDenied
                    /\ ~Called(last, "exists")
                    /\ ~Called(last, "is_dir")
                    /\ ~Called(last, "list_files")
            /\ "files" \in DOMAIN last.reply => Within(p, jail)

\* C26's case: a link inside the jail that leads to an existing directory
\* outside of it was browsed and denied.
C26_Witness ==
    /\ Browsed(last)
    /\ last.data[1] = [form |-> "rel", segs |-> <<"link">>]
    /\ conns[last.conn].settings.file_jail_path = Home
    /\ fs.etc = "dir"
    /\ last.reply = AccessDenied

\* C27: a file listing sent by the browse action has at most 50 entries,
\* none of them with a name that starts with the hidden marker.
C27_ListingCappedNoHidden ==
    (Browsed(last) /\ "files" \in DOMAIN last.reply) =>
        /\ Len(last.reply.files) <= ListLimit
        /\ \A i \in DOMAIN last.reply.files :
                last.reply.files[i].name[1] # HiddenMarker

\* C27's case: a directory with more than 50 entries, hidden ones among
\* them, was listed.
C27_Witness ==
    /\ Browsed(last)
    /\ "files" \in DOMAIN last.reply
    /\ Cardinality(fs.items) > ListLimit
    /\ \E e \in fs.items : IsHidden(e)
    /\ Len(last.reply.files) > 0

\* The listing policy: the entries that are not hidden, directories first
\* and then by name without regard to case, the first 50 of them.
ReferenceListing(items) ==
    LET shown == sorted({e \in items : ~IsHidden(e)})
    IN  SubSeq(shown, 1, IF Len(shown) < ListLimit THEN Len(shown) ELSE ListLimit)

\* C28: the file listing sent by the browse action is the reference
\* listing of the directory's entries.
C28_ListingIsReference ==
    (Browsed(last) /\ "files" \in DOMAIN last.reply) =>
        last.reply.files = ReferenceListing(fs.items)

\* Sequence a is the beginning of sequence b.
IsPrefix(a, b) == Len(a) <= Len(b) /\ SubSeq(b, 1, Len(a)) = a

\* The turns of role in history h.
TurnsOf(h, role) == {i \in DOMAIN h : h[i].role = role}

\* Every assistant turn of h comes right after a user turn, and h has no
\* more assistant turns than user turns.
WellPaired(h) ==
    /\ \A i \in TurnsOf(h, "assistant") : i > 1 /\ h[i - 1].role = "user"
    /\ Cardinality(TurnsOf(h, "assistant")) <= Cardinality(TurnsOf(h, "user"))

\* C31: whatever its outcome (answered, failed, or no backend), a chat
\* leaves the history it found as the beginning of the history it leaves,
\* and in the history it leaves every assistant turn comes right after a
\* user turn and the assistant turns are no more than the user turns.
C31_HistoryAppendOnlyPaired ==
    [][ OwnerChat(last') =>
            /\ IsPrefix(llm_router.history, llm_router'.history)
            /\ WellPaired(llm_router'.history) ]_vars

\* C31's case: a chat has been answered after an earlier chat's provider
\* call had failed, so that two user turns precede the assistant turn.
C31_Witness ==
    /\ OwnerChat(last)
    /\ Called(last, "provider_call")
    /\ Len(llm_router.history) = 3
    /\ llm_router.history[2].role = "user"
    /\ llm_router.history[3].role = "assistant"

\* The settings with every provider key that is set replaced by one value.
Redacted(s) ==
    [s EXCEPT !.openai_api_key = IF @ = NoKey THEN NoKey ELSE "set",
              !.anthropic_api_key = IF @ = NoKey THEN NoKey ELSE "set"]

====
